---- MODULE Spec2Model ----
(***************************************************************************)
(* dbreaker: a database/sql driver wrapper (Breaker) whose Disable flag    *)
(* gates Open on the driver and Prepare / Begin / BeginTx on every Conn    *)
(* it has handed out.  The native driver is the environment: each native   *)
(* call returns a result chosen from NativeResults.                        *)
(*                                                                         *)
(*   Spec      the driver's handlers, one call at a time                   *)
(*   SpecApp   the driver under sql.DB calls (insert, read) and the native *)
(*             statements and transactions the application holds           *)
(*   SpecConc  goroutines in Open, statement by statement, with Disable    *)
(*   SpecGate  goroutines in Prepare, statement by statement, with Disable *)
(*   SpecReg   NewDriver and the Breakers registered under several names   *)
(***************************************************************************)
EXTENDS Integers, Sequences, FiniteSets, TLC

\* ---------------------------------------------------------------- bounds
MaxConns == 2
MaxHandles == 3
MaxPool == 1
MaxGates == 2
MaxProxies == 2

\* ------------------------------------------------------------- constants
Names == {"db1", "db2"}
ErrDown == "database is down"
ErrContext == "context operations are not supported"
NativeErrs == {"native error"}
NativeResults == {"nil"} \cup NativeErrs
NoDB == 0
Rows == {"A", "B"}
AlreadyRegistered == "driver is already registered"
NativeNames == {"sqlite3"}
DriverNames == NativeNames \cup {"breaker1", "breaker2"}
NoGate == 0

VARIABLES
    down,       \* Breaker.down
    dbs,        \* Breaker.dbs: data-source name -> pool handle (NoDB: no entry)
    handles,    \* the pool handles sql.Open has created, by id: the name each was opened for
    hasBeginTx, \* whether the native driver's connections implement driver.ConnBeginTx
    conns,      \* the Conn proxies Open has returned, by id
    stmts,      \* the Conns whose native driver.Stmt, returned by Prepare, the caller holds
    txs,        \* the Conns whose native driver.Tx, returned by Begin / BeginTx, is open
    rows,       \* the rows stored in each data source
    lastSet,    \* history: the argument of the latest Disable call
    lived,      \* history, per Conn: 0, 1 once a Disable(true) happened, 2 once a Disable(false) followed
    last,       \* the latest call: operation, arguments, returned error, native calls made
    scen,       \* history: how far the run has followed TestBreaker's scenario
    pc,         \* per goroutine: the statement of Open / Prepare it is at ("idle": in no call)
    loc,        \* per goroutine: the locals of its call (name, db, its Conn, what its check read)
    written,    \* history: the values Disable has stored in Breaker.down
    readers,    \* history: the goroutines that have read Breaker.down
    race,       \* history: a read and a write of Breaker.down were unordered and not atomic
    lastRead,   \* history: the value the latest read of Breaker.down returned, and down then
    drivers,    \* database/sql's registry: the registered names, each with its Breaker (NoGate: a native driver)
    breakers,   \* the Breakers NewDriver has created, by id: native, down, dbs
    pools,      \* the pool handles the Breakers have created, by id: creating Breaker, name
    proxies,    \* the Conns the Breakers have returned, by id: Breaker, name
    rlast       \* the latest call on the registry or on a registered Breaker

conc == <<pc, loc, written, readers, race, lastRead>>
reg == <<drivers, breakers, pools, proxies, rlast>>
single == <<down, dbs, handles, hasBeginTx, conns, stmts, txs, rows, lastSet, lived, last,
           scen, conc>>
vars == <<single, reg>>

\* The goroutines that call Open and Prepare concurrently; Disable runs on another one.
Procs == {"g1", "g2"}
Idle == [name |-> "", db |-> NoDB, conn |-> 0, saw |-> FALSE]

\* One native call: the function, the handle or connection it is made on, its result.
Call(fn, on, res) == [fn |-> fn, on |-> on, res |-> res]

\* What a call returned: err is the error ("nil": none), out the rows a read returned.
Ret(op, name, conn, err, calls) ==
    [op |-> op, name |-> name, conn |-> conn, flag |-> FALSE, row |-> "", err |-> err,
     out |-> {}, calls |-> calls]

\* TestBreaker's scenario, step by step: open, insert a, Disable(true), insert b, read,
\* Disable(false), insert b again, read.  ph counts the steps taken; any other call
\* leaves the scenario (ph = -1).
ScenOff == [ph |-> -1, c |-> 0, a |-> "", b |-> ""]
Observe(s, prev, l) ==
    CASE s.ph = 0 /\ l.op = "Open" /\ l.err = "nil" -> [s EXCEPT !.ph = 1, !.c = l.conn]
      [] s.ph = 1 /\ l.op = "Insert" /\ l.conn = s.c /\ l.err = "nil" ->
            [s EXCEPT !.ph = 2, !.a = l.row]
      [] s.ph = 2 /\ l.op = "Disable" /\ l.flag -> [s EXCEPT !.ph = 3]
      [] s.ph = 3 /\ l.op = "Insert" /\ l.conn = s.c -> [s EXCEPT !.ph = 4, !.b = l.row]
      [] s.ph = 4 /\ l.op = "Read" /\ l.conn = s.c -> [s EXCEPT !.ph = 5]
      [] s.ph = 5 /\ l.op = "Disable" /\ ~l.flag -> [s EXCEPT !.ph = 6]
      [] s.ph = 6 /\ l.op = "Insert" /\ l.conn = s.c /\ l.row = s.b -> [s EXCEPT !.ph = 7]
      [] s.ph = 7 /\ l.op = "Read" /\ l.conn = s.c /\ prev.err = "nil" ->
            [s EXCEPT !.ph = 8]
      [] OTHER -> ScenOff

ConnIds == 1..Len(conns)
Live == {c \in ConnIds : ~conns[c].closed}

\* NewDriver: a Breaker with down = false and an empty dbs map.
Init ==
    /\ down = FALSE
    /\ dbs = [n \in Names |-> NoDB]
    /\ handles = <<>>
    /\ hasBeginTx \in BOOLEAN
    /\ conns = <<>>
    /\ stmts = {}
    /\ txs = {}
    /\ rows = [n \in Names |-> {}]
    /\ lastSet = FALSE
    /\ lived = <<>>
    /\ last = Ret("NewDriver", "", 0, "nil", <<>>)
    /\ scen = [ph |-> 0, c |-> 0, a |-> "", b |-> ""]
    /\ pc = [g \in Procs |-> "idle"]
    /\ loc = [g \in Procs |-> Idle]
    /\ written = {}
    /\ readers = {}
    /\ race = FALSE
    /\ lastRead = [val |-> FALSE, cur |-> FALSE]
    /\ drivers = {[name |-> n, gate |-> NoGate] : n \in NativeNames}
    /\ breakers = <<>>
    /\ pools = <<>>
    /\ proxies = <<>>
    /\ rlast = [op |-> "import", gate |-> NoGate, name |-> "", conn |-> 0, flag |-> FALSE,
                err |-> "nil"]

\* The history of the Conns across a Disable(off).
LivedAfter(off) ==
    [c \in ConnIds |-> IF off /\ lived[c] = 0 THEN 1
                       ELSE IF ~off /\ lived[c] = 1 THEN 2 ELSE lived[c]]

\* down bool: a plain field, read and written with plain loads and stores.
FlagAtomic == FALSE

\* What a read of Breaker.down on a goroutine other than Disable's can return: with
\* atomic accesses the current value; with plain ones (a data race) also any value
\* stored before, the initial false included.
FlagValues == IF FlagAtomic THEN {down} ELSE {down, FALSE} \cup written

\* Disable: w.down = off
DisableLatched(off) ==
    /\ down' = (down \/ off)
    /\ lastSet' = off
    /\ lived' = LivedAfter(off)
    /\ last' = [Ret("Disable", "", 0, "nil", <<>>) EXCEPT !.flag = off]
    /\ UNCHANGED <<dbs, handles, hasBeginTx, conns, stmts, txs, rows>>
    /\ scen' = Observe(scen, last, last')

Disable(off) ==
    /\ down' = off
    /\ lastSet' = off
    /\ lived' = LivedAfter(off)
    /\ last' = [Ret("Disable", "", 0, "nil", <<>>) EXCEPT !.flag = off]
    /\ UNCHANGED <<dbs, handles, hasBeginTx, conns, stmts, txs, rows>>
    /\ scen' = Observe(scen, last, last')

\* db, ok := w.dbs[name]
Lookup(name) == dbs[name] # NoDB

\* w.dbs[name] = db
CacheSkip(name, db) == dbs

CacheInsert(name, db) == [dbs EXCEPT ![name] = db]

\* if w.down { return nil, ErrDown }
OpenUngated == FALSE

OpenGate == down

\* c, err := db.Driver().Open(name), the probe for driver.ConnBeginTx, and the Conn.
NativeConn(name, db, c1) ==
    \E r2 \in NativeResults :
        LET c2 == c1 \o <<Call("Driver.Open", db, r2)>>
        IN  IF r2 # "nil"
            THEN /\ last' = Ret("Open", name, 0, r2, c2)
                 /\ UNCHANGED <<conns, lived>>
            ELSE /\ conns' = Append(conns, [dsn |-> name, db |-> db, b |-> hasBeginTx,
                                            closed |-> FALSE])
                 /\ lived' = Append(lived, 0)
                 /\ last' = Ret("Open", name, Len(conns) + 1, "nil", c2)

\* if err != nil { return nil, err }: sql.Open failed, nothing is stored in w.dbs.
FailedOpenCached(name, r1) ==
    /\ last' = Ret("Open", name, 0, r1, <<Call("sql.Open", 0, r1)>>)
    /\ handles' = Append(handles, name)
    /\ dbs' = [dbs EXCEPT ![name] = Len(handles) + 1]
    /\ UNCHANGED <<conns, lived>>

FailedOpen(name, r1) ==
    /\ last' = Ret("Open", name, 0, r1, <<Call("sql.Open", 0, r1)>>)
    /\ UNCHANGED <<dbs, handles, conns, lived>>

\* Open: gate, pool handle from the cache or sql.Open, native connection, proxy.
Open(name) ==
    /\ Len(conns) < MaxConns
    /\ IF OpenGate
       THEN /\ last' = Ret("Open", name, 0, ErrDown, <<>>)
            /\ UNCHANGED <<dbs, handles, conns, lived>>
       ELSE IF ~Lookup(name)
       THEN \E r1 \in NativeResults :
            LET c1 == <<Call("sql.Open", 0, r1)>>
                db == Len(handles) + 1
            IN  /\ Len(handles) < MaxHandles
                /\ IF r1 # "nil"
                   THEN FailedOpen(name, r1)
                   ELSE /\ handles' = Append(handles, name)
                        /\ dbs' = CacheInsert(name, db)
                        /\ NativeConn(name, db, c1)
       ELSE /\ NativeConn(name, dbs[name], <<>>)
            /\ UNCHANGED <<dbs, handles>>
    /\ UNCHANGED <<down, hasBeginTx, stmts, txs, rows, lastSet>>
    /\ UNCHANGED <<conc, reg>>
    /\ scen' = Observe(scen, last, last')

\* What a call on Conn c's native connection can return: an error once it is closed.
NativeOn(c) == IF conns[c].closed THEN NativeErrs ELSE NativeResults

\* down := func() bool { return w.down }: the closure a Conn calls at each gated call.
ConnDownAtOpen(c) == FALSE

ConnDown(c) == down

\* Prepare: ErrDown when down, else c.c.Prepare(query): the native statement, unwrapped.
PrepareRetry(c) ==
    /\ c \in ConnIds
    /\ IF ConnDown(c)
       THEN /\ last' = Ret("Prepare", "", c, ErrDown, <<>>)
            /\ UNCHANGED stmts
       ELSE \E r \in NativeOn(c), r2 \in NativeOn(c) :
            /\ last' = IF r = "nil"
                       THEN Ret("Prepare", "", c, r, <<Call("Prepare", c, r)>>)
                       ELSE Ret("Prepare", "", c, r2,
                                <<Call("Prepare", c, r), Call("Prepare", c, r2)>>)
            /\ stmts' = IF r = "nil" \/ r2 = "nil" THEN stmts \cup {c} ELSE stmts
    /\ UNCHANGED <<down, dbs, handles, hasBeginTx, conns, txs, rows, lastSet, lived>>
    /\ UNCHANGED <<conc, reg>>
    /\ scen' = Observe(scen, last, last')

Prepare(c) ==
    /\ c \in ConnIds
    /\ IF ConnDown(c)
       THEN /\ last' = Ret("Prepare", "", c, ErrDown, <<>>)
            /\ UNCHANGED stmts
       ELSE \E r \in NativeOn(c) :
            /\ last' = Ret("Prepare", "", c, r, <<Call("Prepare", c, r)>>)
            /\ stmts' = IF r = "nil" THEN stmts \cup {c} ELSE stmts
    /\ UNCHANGED <<down, dbs, handles, hasBeginTx, conns, txs, rows, lastSet, lived>>
    /\ UNCHANGED <<conc, reg>>
    /\ scen' = Observe(scen, last, last')

\* Close: c.c.Close(), whatever the flag.
CloseGated(c) ==
    /\ c \in ConnIds
    /\ IF ConnDown(c)
       THEN /\ last' = Ret("Close", "", c, ErrDown, <<>>)
            /\ UNCHANGED <<conns, stmts, txs>>
       ELSE \E r \in NativeResults :
            /\ last' = Ret("Close", "", c, r, <<Call("Close", c, r)>>)
            /\ conns' = [conns EXCEPT ![c].closed = TRUE]
            /\ stmts' = stmts \ {c}
            /\ txs' = txs \ {c}
    /\ UNCHANGED <<down, dbs, handles, hasBeginTx, rows, lastSet, lived>>
    /\ UNCHANGED <<conc, reg>>
    /\ scen' = Observe(scen, last, last')

CloseEvicts(c) ==
    /\ c \in ConnIds
    /\ \E r \in NativeResults :
       /\ last' = Ret("Close", "", c, r, <<Call("Close", c, r)>>)
       /\ conns' = [conns EXCEPT ![c].closed = TRUE]
       /\ stmts' = stmts \ {c}
       /\ txs' = txs \ {c}
    /\ dbs' = [dbs EXCEPT ![conns[c].dsn] = NoDB]
    /\ UNCHANGED <<down, handles, hasBeginTx, rows, lastSet, lived>>
    /\ UNCHANGED <<conc, reg>>
    /\ scen' = Observe(scen, last, last')

Close(c) ==
    /\ c \in ConnIds
    /\ \E r \in NativeResults :
       /\ last' = Ret("Close", "", c, r, <<Call("Close", c, r)>>)
       /\ conns' = [conns EXCEPT ![c].closed = TRUE]
       /\ stmts' = stmts \ {c}
       /\ txs' = txs \ {c}
    /\ UNCHANGED <<down, dbs, handles, hasBeginTx, rows, lastSet, lived>>
    /\ UNCHANGED <<conc, reg>>
    /\ scen' = Observe(scen, last, last')

\* Begin: ErrDown when down, else c.c.Begin(): the native transaction, unwrapped.
Begin(c) ==
    /\ c \in ConnIds
    /\ IF ConnDown(c)
       THEN /\ last' = Ret("Begin", "", c, ErrDown, <<>>)
            /\ UNCHANGED txs
       ELSE \E r \in NativeOn(c) :
            /\ last' = Ret("Begin", "", c, r, <<Call("Begin", c, r)>>)
            /\ txs' = IF r = "nil" THEN txs \cup {c} ELSE txs
    /\ UNCHANGED <<down, dbs, handles, hasBeginTx, conns, stmts, rows, lastSet, lived>>
    /\ UNCHANGED <<conc, reg>>
    /\ scen' = Observe(scen, last, last')

\* BeginTx: ErrDown when down, else ErrContext when c.b is nil, else c.b.BeginTx.
BeginTxProbeFirst(c) ==
    /\ c \in ConnIds
    /\ IF ~conns[c].b
       THEN /\ last' = Ret("BeginTx", "", c, ErrContext, <<>>)
            /\ UNCHANGED txs
       ELSE IF ConnDown(c)
       THEN /\ last' = Ret("BeginTx", "", c, ErrDown, <<>>)
            /\ UNCHANGED txs
       ELSE \E r \in NativeOn(c) :
            /\ last' = Ret("BeginTx", "", c, r, <<Call("BeginTx", c, r)>>)
            /\ txs' = IF r = "nil" THEN txs \cup {c} ELSE txs
    /\ UNCHANGED <<down, dbs, handles, hasBeginTx, conns, stmts, rows, lastSet, lived>>
    /\ UNCHANGED <<conc, reg>>
    /\ scen' = Observe(scen, last, last')

BeginTx(c) ==
    /\ c \in ConnIds
    /\ IF ConnDown(c)
       THEN /\ last' = Ret("BeginTx", "", c, ErrDown, <<>>)
            /\ UNCHANGED txs
       ELSE IF ~conns[c].b
       THEN /\ last' = Ret("BeginTx", "", c, ErrContext, <<>>)
            /\ UNCHANGED txs
       ELSE \E r \in NativeOn(c) :
            /\ last' = Ret("BeginTx", "", c, r, <<Call("BeginTx", c, r)>>)
            /\ txs' = IF r = "nil" THEN txs \cup {c} ELSE txs
    /\ UNCHANGED <<down, dbs, handles, hasBeginTx, conns, stmts, rows, lastSet, lived>>
    /\ UNCHANGED <<conc, reg>>
    /\ scen' = Observe(scen, last, last')

\* stmt.Exec on a statement Prepare returned: the native driver.Stmt itself, so the
\* call goes to the native driver with no check of the flag.
StmtExec(c, row) ==
    /\ c \in stmts
    /\ \E r \in NativeResults :
       /\ last' = [Ret("Stmt.Exec", "", c, r, <<Call("Stmt.Exec", c, r)>>)
                     EXCEPT !.row = row]
       /\ rows' = IF r = "nil" THEN [rows EXCEPT ![conns[c].dsn] = @ \cup {row}]
                  ELSE rows
    /\ UNCHANGED <<down, dbs, handles, hasBeginTx, conns, stmts, txs, lastSet, lived>>
    /\ UNCHANGED <<conc, reg>>
    /\ scen' = Observe(scen, last, last')

\* tx.Commit on a transaction Begin / BeginTx returned: the native driver.Tx itself.
TxCommit(c) ==
    /\ c \in txs
    /\ \E r \in NativeResults :
       /\ last' = Ret("Tx.Commit", "", c, r, <<Call("Tx.Commit", c, r)>>)
       /\ txs' = txs \ {c}
    /\ UNCHANGED <<down, dbs, handles, hasBeginTx, conns, stmts, rows, lastSet, lived>>
    /\ UNCHANGED <<conc, reg>>
    /\ scen' = Observe(scen, last, last')

\* db.ExecContext(ctx, insert) on the pool's connection c: database/sql calls
\* c.Prepare, then Exec and Close on the statement it returned.
Insert(c, row) ==
    /\ c \in ConnIds
    /\ IF ConnDown(c)
       THEN /\ last' = [Ret("Insert", "", c, ErrDown, <<>>) EXCEPT !.row = row]
            /\ UNCHANGED rows
       ELSE \E r1 \in NativeOn(c) :
            LET c1 == <<Call("Prepare", c, r1)>>
            IN  IF r1 # "nil"
                THEN /\ last' = [Ret("Insert", "", c, r1, c1) EXCEPT !.row = row]
                     /\ UNCHANGED rows
                ELSE \E r2 \in NativeResults :
                     /\ last' = [Ret("Insert", "", c, r2,
                                     c1 \o <<Call("Stmt.Exec", c, r2)>>)
                                   EXCEPT !.row = row]
                     /\ rows' = IF r2 = "nil"
                                THEN [rows EXCEPT ![conns[c].dsn] = @ \cup {row}]
                                ELSE rows
    /\ UNCHANGED <<down, dbs, handles, hasBeginTx, conns, stmts, txs, lastSet, lived>>
    /\ UNCHANGED <<conc, reg>>
    /\ scen' = Observe(scen, last, last')

\* read(db): db.QueryContext on the pool's connection c: c.Prepare, then Query on the
\* statement it returned; the rows are scanned.
Read(c) ==
    /\ c \in ConnIds
    /\ IF ConnDown(c)
       THEN last' = Ret("Read", "", c, ErrDown, <<>>)
       ELSE \E r1 \in NativeOn(c) :
            LET c1 == <<Call("Prepare", c, r1)>>
            IN  IF r1 # "nil"
                THEN last' = Ret("Read", "", c, r1, c1)
                ELSE \E r2 \in NativeResults :
                     last' = [Ret("Read", "", c, r2, c1 \o <<Call("Stmt.Query", c, r2)>>)
                                EXCEPT !.out = IF r2 = "nil" THEN rows[conns[c].dsn]
                                               ELSE {}]
    /\ UNCHANGED <<down, dbs, handles, hasBeginTx, conns, stmts, txs, rows, lastSet, lived>>
    /\ UNCHANGED <<conc, reg>>
    /\ scen' = Observe(scen, last, last')

Next ==
    \/ \E off \in BOOLEAN : Disable(off) /\ UNCHANGED <<conc, reg>>
    \/ \E n \in Names : Open(n)
    \/ \E c \in ConnIds : Prepare(c)
    \/ \E c \in ConnIds : Close(c)
    \/ \E c \in ConnIds : Begin(c)
    \/ \E c \in ConnIds : BeginTx(c)

Spec == Init /\ [][Next]_vars

\* The driver under an application: sql.DB calls on a pool of at most MaxPool
\* connections, and the native statements and transactions the application keeps.
NextApp ==
    \/ \E off \in BOOLEAN : Disable(off) /\ UNCHANGED <<conc, reg>>
    \/ \E n \in Names : Len(conns) < MaxPool /\ Open(n)
    \/ \E c \in ConnIds : Prepare(c)
    \/ \E c \in ConnIds : Begin(c)
    \/ \E c \in ConnIds : BeginTx(c)
    \/ \E c \in ConnIds : Close(c)
    \/ \E c \in ConnIds, r \in Rows : StmtExec(c, r)
    \/ \E c \in ConnIds : TxCommit(c)
    \/ \E c \in ConnIds, r \in Rows : Insert(c, r)
    \/ \E c \in ConnIds : Read(c)

SpecApp == Init /\ [][NextApp]_vars
\* ---------------------------------------------- goroutines, statement by statement
Set(g, label, l) == pc' = [pc EXCEPT ![g] = label] /\ loc' = [loc EXCEPT ![g] = l]

\* g's call returns err to its caller: its locals are gone.
Return(g, err) == Set(g, "idle", Idle)
seqVars == <<lastSet, lived, last, scen, rows, txs, hasBeginTx, reg>>

\* Disable on a goroutine of its own, while the goroutines of Procs are in their calls.
DisableConcurrent(off) ==
    /\ Disable(off)
    /\ written' = written \cup {off}
    /\ race' = (race \/ (~FlagAtomic /\ readers # {}))
    /\ UNCHANGED <<pc, loc, readers, lastRead, reg>>

\* A read of Breaker.down by goroutine g that returns v.
FlagRead(g, v) ==
    /\ v \in FlagValues
    /\ lastRead' = [val |-> v, cur |-> down]
    /\ readers' = readers \cup {g}
    /\ race' = (race \/ (~FlagAtomic /\ written # {}))
    /\ UNCHANGED written

\* g calls w.Open(name).
CallOpen(g, name) ==
    /\ pc[g] = "idle" /\ Len(conns) < MaxConns
    /\ Set(g, "gate", [Idle EXCEPT !.name = name])
    /\ UNCHANGED <<down, dbs, handles, conns, stmts, written, readers, race, lastRead>>
    /\ UNCHANGED seqVars

\* if w.down { return nil, ErrDown }
OpenGateStep(g) ==
    /\ pc[g] = "gate"
    /\ \E v \in BOOLEAN :
       /\ FlagRead(g, v)
       /\ IF v THEN Return(g, ErrDown)
          ELSE Set(g, "lookup", loc[g])
    /\ UNCHANGED <<down, dbs, handles, conns, stmts>>
    /\ UNCHANGED seqVars

\* db, ok := w.dbs[name]; if !ok { ... }
OpenLookup(g) ==
    /\ pc[g] = "lookup"
    /\ IF Lookup(loc[g].name)
       THEN Set(g, "conn", [loc[g] EXCEPT !.db = dbs[loc[g].name]])
       ELSE Set(g, "sqlopen", loc[g])
    /\ UNCHANGED <<down, dbs, handles, conns, stmts, written, readers, race, lastRead>>
    /\ UNCHANGED seqVars

\* db, err = sql.Open(w.native, name); if err != nil { return nil, err }
OpenSqlOpen(g) ==
    /\ pc[g] = "sqlopen"
    /\ \E r \in NativeResults :
       IF r # "nil"
       THEN Return(g, r) /\ UNCHANGED handles
       ELSE /\ Len(handles) < MaxHandles
            /\ handles' = Append(handles, loc[g].name)
            /\ Set(g, "insert", [loc[g] EXCEPT !.db = Len(handles) + 1])
    /\ UNCHANGED <<down, dbs, conns, stmts, written, readers, race, lastRead>>
    /\ UNCHANGED seqVars

\* w.dbs[name] = db
OpenInsert(g) ==
    /\ pc[g] = "insert"
    /\ dbs' = CacheInsert(loc[g].name, loc[g].db)
    /\ Set(g, "conn", loc[g])
    /\ UNCHANGED <<down, handles, conns, stmts, written, readers, race, lastRead>>
    /\ UNCHANGED seqVars

\* c, err := db.Driver().Open(name); ...; return &Conn{b: b, c: c, down: down}, nil
OpenConn(g) ==
    /\ pc[g] = "conn"
    /\ \E r \in NativeResults :
       IF r # "nil"
       THEN Return(g, r) /\ UNCHANGED <<conns, lived>>
       ELSE /\ Len(conns) < MaxConns
            /\ conns' = Append(conns, [dsn |-> loc[g].name, db |-> loc[g].db,
                                       b |-> hasBeginTx, closed |-> FALSE])
            /\ lived' = Append(lived, 0)
            /\ Return(g, "nil")
    /\ UNCHANGED <<down, dbs, handles, stmts, written, readers, race, lastRead>>
    /\ UNCHANGED <<lastSet, last, scen, rows, txs, hasBeginTx, reg>>

\* g calls c.Prepare(query).
CallPrepare(g, c) ==
    /\ pc[g] = "idle" /\ c \in ConnIds
    /\ Set(g, "pgate", [Idle EXCEPT !.conn = c])
    /\ UNCHANGED <<down, dbs, handles, conns, stmts, written, readers, race, lastRead>>
    /\ UNCHANGED seqVars

\* if c.down() { return nil, ErrDown }
PrepareGateIgnored(g) ==
    /\ pc[g] = "pgate"
    /\ \E v \in BOOLEAN :
       /\ FlagRead(g, v)
       /\ Set(g, "pnative", [loc[g] EXCEPT !.saw = v])
    /\ UNCHANGED <<down, dbs, handles, conns, stmts>>
    /\ UNCHANGED seqVars

PrepareGateStep(g) ==
    /\ pc[g] = "pgate"
    /\ \E v \in BOOLEAN :
       /\ FlagRead(g, v)
       /\ IF v THEN /\ Return(g, ErrDown)
                    /\ last' = Ret("Prepare", "", loc[g].conn, ErrDown, <<>>)
          ELSE /\ Set(g, "pnative", [loc[g] EXCEPT !.saw = v])
               /\ UNCHANGED last
    /\ scen' = Observe(scen, last, last')
    /\ UNCHANGED <<down, dbs, handles, conns, stmts>>
    /\ UNCHANGED <<lastSet, lived, rows, txs, hasBeginTx, reg>>

\* return c.c.Prepare(query)
PrepareNative(g) ==
    /\ pc[g] = "pnative"
    /\ \E r \in NativeOn(loc[g].conn) :
       /\ Return(g, r)
       /\ last' = Ret("Prepare", "", loc[g].conn, r, <<Call("Prepare", loc[g].conn, r)>>)
       /\ stmts' = IF r = "nil" THEN stmts \cup {loc[g].conn} ELSE stmts
    /\ scen' = Observe(scen, last, last')
    /\ UNCHANGED <<down, dbs, handles, conns, written, readers, race, lastRead>>
    /\ UNCHANGED <<lastSet, lived, rows, txs, hasBeginTx, reg>>

NextConc ==
    \/ \E off \in BOOLEAN : DisableConcurrent(off)
    \/ \E g \in Procs, n \in Names : CallOpen(g, n)
    \/ \E g \in Procs : OpenGateStep(g)
    \/ \E g \in Procs : OpenLookup(g)
    \/ \E g \in Procs : OpenSqlOpen(g)
    \/ \E g \in Procs : OpenInsert(g)
    \/ \E g \in Procs : OpenConn(g)

SpecConc == Init /\ [][NextConc]_vars

\* Goroutines calling Prepare, statement by statement, on the Conns of a pool while
\* another goroutine calls Disable.
NextGate ==
    \/ \E off \in BOOLEAN : DisableConcurrent(off)
    \/ \E n \in Names : Open(n)
    \/ \E g \in Procs, c \in ConnIds : CallPrepare(g, c)
    \/ \E g \in Procs : PrepareGateStep(g)
    \/ \E g \in Procs : PrepareNative(g)

SpecGate == Init /\ [][NextGate]_vars

\* ------------------------------------------------ the registry and its Breakers

\* The record of a call on the registry or on Breaker w.
RRet(op, w, name, c, err) ==
    [op |-> op, gate |-> w, name |-> name, conn |-> c, flag |-> FALSE, err |-> err]

GateIds == 1..Len(breakers)
ProxyIds == 1..Len(proxies)

\* &Breaker{native: native, dbs: make(map[string]*sql.DB)}
NewBreaker(native) == [native |-> native, down |-> FALSE, dbs |-> [n \in Names |-> NoDB]]

\* for _, d := range sql.Drivers() { if d == name { ... } }
NotRegistered(name) == FALSE

Registered(name) == \E d \in drivers : d.name = name

NewDriver(name, native) ==
    /\ IF Registered(name)
       THEN /\ rlast' = RRet("NewDriver", NoGate, name, 0, AlreadyRegistered)
            /\ UNCHANGED <<drivers, breakers>>
       ELSE /\ Len(breakers) < MaxGates
            /\ breakers' = Append(breakers, NewBreaker(native))
            /\ drivers' = drivers \cup {[name |-> name, gate |-> Len(breakers) + 1]}
            /\ rlast' = RRet("NewDriver", Len(breakers) + 1, name, 0, "nil")
    /\ UNCHANGED <<pools, proxies>>
    /\ UNCHANGED single

\* w.down = off, on every Breaker
DisableEvery(w, off) ==
    /\ breakers' = [v \in GateIds |-> [breakers[v] EXCEPT !.down = off]]
    /\ rlast' = [RRet("Disable", w, "", 0, "nil") EXCEPT !.flag = off]
    /\ UNCHANGED <<drivers, pools, proxies>>
    /\ UNCHANGED single

\* w.down = off
DisableOn(w, off) ==
    /\ breakers' = [breakers EXCEPT ![w].down = off]
    /\ rlast' = [RRet("Disable", w, "", 0, "nil") EXCEPT !.flag = off]
    /\ UNCHANGED <<drivers, pools, proxies>>
    /\ UNCHANGED single

\* Breaker.Open on Breaker w.
OpenOn(w, name) ==
    /\ IF breakers[w].down
       THEN /\ rlast' = RRet("Open", w, name, 0, ErrDown)
            /\ UNCHANGED <<breakers, pools, proxies>>
       ELSE \E r1 \in (IF breakers[w].dbs[name] # NoDB THEN {"nil"} ELSE NativeResults) :
            IF r1 # "nil"
            THEN /\ rlast' = RRet("Open", w, name, 0, r1)
                 /\ UNCHANGED <<breakers, pools, proxies>>
            ELSE /\ IF breakers[w].dbs[name] # NoDB
                    THEN UNCHANGED <<breakers, pools>>
                    ELSE /\ pools' = Append(pools, [gate |-> w, name |-> name])
                         /\ breakers' = [breakers EXCEPT ![w].dbs[name] = Len(pools) + 1]
                 /\ \E r2 \in NativeResults :
                    IF r2 # "nil"
                    THEN /\ rlast' = RRet("Open", w, name, 0, r2)
                         /\ UNCHANGED proxies
                    ELSE /\ Len(proxies) < MaxProxies
                         /\ proxies' = Append(proxies, [gate |-> w, dsn |-> name])
                         /\ rlast' = RRet("Open", w, name, Len(proxies) + 1, "nil")
    /\ UNCHANGED drivers
    /\ UNCHANGED single

\* Conn.Prepare on a Conn of Breaker proxies[c].gate.
PrepareOn(c) ==
    /\ \E r \in (IF breakers[proxies[c].gate].down THEN {ErrDown} ELSE NativeResults) :
       rlast' = RRet("Prepare", proxies[c].gate, proxies[c].dsn, c, r)
    /\ UNCHANGED <<drivers, breakers, pools, proxies>>
    /\ UNCHANGED single

\* Conn.Begin on a Conn of Breaker proxies[c].gate.
BeginOn(c) ==
    /\ \E r \in (IF breakers[proxies[c].gate].down THEN {ErrDown} ELSE NativeResults) :
       rlast' = RRet("Begin", proxies[c].gate, proxies[c].dsn, c, r)
    /\ UNCHANGED <<drivers, breakers, pools, proxies>>
    /\ UNCHANGED single

NextReg ==
    \/ \E name \in DriverNames, native \in NativeNames : NewDriver(name, native)
    \/ \E w \in GateIds, off \in BOOLEAN : DisableOn(w, off)
    \/ \E w \in GateIds, name \in Names : OpenOn(w, name)
    \/ \E c \in ProxyIds : PrepareOn(c)
    \/ \E c \in ProxyIds : BeginOn(c)

SpecReg == Init /\ [][NextReg]_vars

\* ------------------------------------------------------------------ claims
Gated == {"Prepare", "Begin", "BeginTx"}
HandlesFor(n) == {h \in 1..Len(handles) : handles[h] = n}

\* C1: once Disable(true) is the latest Disable call, every Prepare, Begin and BeginTx
\* on a Conn returns ErrDown and makes no native call, also on a Conn that was opened
\* while the flag was false: the Conn reads the flag at each call.
C1_GatedWhileDisabled ==
    (last.op \in Gated /\ lastSet) => (last.err = ErrDown /\ last.calls = <<>>)

C1_Witness ==
    /\ last.op = "Prepare" /\ lastSet /\ last.err = ErrDown
    /\ last.conn \in Live /\ lived[last.conn] = 1

\* When Disable(false) is the latest Disable call, Prepare and Begin make exactly the
\* native call on their Conn's native connection and return its result.
C2_Delegated ==
    (last.op \in {"Prepare", "Begin"} /\ ~lastSet)
        => last.calls = <<Call(last.op, last.conn, last.err)>>

\* Neither a Disable nor a gated call changes the Conns, the pool handles or the cache.
C2_Frame ==
    (last'.op \in Gated \cup {"Disable"})
        => (conns' = conns /\ dbs' = dbs /\ handles' = handles)

\* C2: after any toggles that end with Disable(false), Prepare and Begin on a Conn
\* opened before them are delegated to its native connection again, with no new Open
\* and no new Conn: the toggles and the calls leave Conns, handles and cache as they were.
C2_ReenabledDelegates == []C2_Delegated /\ [][C2_Frame]_vars

C2_Witness ==
    /\ last.op = "Prepare" /\ ~lastSet
    /\ last.conn \in Live /\ lived[last.conn] = 2
    /\ last.calls = <<Call("Prepare", last.conn, "nil")>>

\* An Open step taken while Disable(true) is the latest Disable call.
C3_Step ==
    (last'.op = "Open" /\ lastSet)
        => /\ last'.err = ErrDown /\ last'.calls = <<>> /\ last'.conn = 0
           /\ conns' = conns /\ dbs' = dbs /\ handles' = handles

\* C3: an Open made while Disable(true) is the latest Disable call returns ErrDown,
\* makes no native call (neither sql.Open nor the driver's Open), adds no Conn and
\* leaves the dbs cache as it was, for a cached name and for a new one.
C3_OpenWhileDisabled == [][C3_Step]_vars

C3_Witness ==
    /\ last.op = "Open" /\ lastSet /\ last.err = ErrDown
    /\ dbs[last.name] # NoDB
    /\ \E n \in Names : dbs[n] = NoDB

\* C4: Close makes exactly one native Close call, on its Conn's native connection, and
\* returns that call's result, never ErrDown, whatever the flag is and was.
C4_CloseAlwaysDelegates ==
    last.op = "Close"
        => (last.calls = <<Call("Close", last.conn, last.err)>> /\ last.err # ErrDown)

C4_Witness ==
    /\ last.op = "Close" /\ down /\ lastSet
    /\ lived[last.conn] = 1 /\ Len(last.calls) = 1

\* TestBreaker's scenario, by the step it has reached.
C5_Scenario ==
    LET n == conns[scen.c].dsn
    IN  /\ scen.ph \in {4, 5} => (last.err = ErrDown /\ rows[n] = {scen.a})
        /\ scen.ph = 7 => /\ last.err \in NativeResults
                          /\ last.err = "nil" => rows[n] = {scen.a, scen.b}
        /\ scen.ph = 8 => /\ last.err \in NativeResults
                          /\ last.err = "nil" => last.out = {scen.a, scen.b}

\* What a step does to the stored rows.
C5_Step ==
    LET n == conns[last'.conn].dsn
    IN  /\ (last'.op \in {"Insert", "Read"} /\ lastSet)
            => (last'.err = ErrDown /\ rows' = rows)
        /\ last'.op \in {"Insert", "Stmt.Exec"}
            => rows' = IF last'.err = "nil"
                       THEN [rows EXCEPT ![n] = @ \cup {last'.row}] ELSE rows
        /\ last'.op \notin {"Insert", "Stmt.Exec"} => rows' = rows
        /\ (last'.op = "Read" /\ last'.err = "nil") => last'.out = rows[n]

\* C5: TestBreaker's scenario: after insert a and Disable(true), the insert of b and
\* the read return ErrDown and the stored rows stay {a}; after Disable(false) the
\* insert of b is not refused and, the native driver accepting it, the read returns
\* {a, b}.  In general the stored rows change only by an insert that returned no error,
\* which adds its row, and a successful read returns the stored rows.
C5_EndToEnd == []C5_Scenario /\ [][C5_Step]_vars

C5_Witness ==
    /\ scen.ph = 8 /\ last.err = "nil" /\ scen.a # scen.b
    /\ last.out = {scen.a, scen.b}

\* One pool handle at most per name, cached, and the handle of every Conn of the name.
C6_OneHandle ==
    /\ \A n \in Names : Cardinality(HandlesFor(n)) <= 1
    /\ \A n \in Names : dbs[n] # NoDB => HandlesFor(n) = {dbs[n]}
    /\ \A c \in ConnIds : conns[c].db = dbs[conns[c].dsn]

\* An Open of a cached name makes no sql.Open call and leaves the cache as it is.
C6_Step ==
    (last'.op = "Open" /\ dbs[last'.name] # NoDB)
        => /\ \A i \in 1..Len(last'.calls) : last'.calls[i].fn # "sql.Open"
           /\ dbs' = dbs /\ handles' = handles

\* C6: in a sequential history of Opens, toggles and Closes, sql.Open creates at most
\* one pool handle per data-source name: the cache holds that one handle under the
\* name, and every Open of the name after it reuses it without calling sql.Open.
C6_OneHandlePerName == []C6_OneHandle /\ [][C6_Step]_vars

C6_Witness ==
    /\ Len(conns) = 2 /\ conns[1].dsn = conns[2].dsn /\ conns[1].db = conns[2].db
    /\ conns[1].closed /\ lived[1] = 2
    /\ last.op = "Open" /\ last.conn = 2
    /\ last.calls = <<Call("Driver.Open", conns[2].db, "nil")>>

\* C7: when goroutines open the same new name at once, one pool handle at most is
\* created for the name and every Conn of the name is opened from it.
C7_SingleHandleUnderRace ==
    /\ \A n \in Names : Cardinality(HandlesFor(n)) <= 1
    /\ \A c1, c2 \in ConnIds : conns[c1].dsn = conns[c2].dsn => conns[c1].db = conns[c2].db

\* C8: the flag is accessed atomically: no read of it races with a write, and a read
\* returns the value the latest completed Disable stored.
C8_AtomicFlag ==
    /\ ~race
    /\ lastRead.val = lastRead.cur

\* C9 as claimed: while the flag is set, no call but Close reaches the native driver,
\* statements and transactions obtained before the Disable included.
C9_NoNativeCallWhileDown ==
    (down /\ last.op # "Close") => last.calls = <<>>

\* C9, amended: while the flag is set, Open, Prepare, Begin and BeginTx (and the
\* sql.DB calls that go through Prepare) make no native call; Close, and Exec and
\* Commit on a statement or transaction the caller already holds, make their one
\* native call whatever the flag is.
C9_LifecycleCallsGated ==
    /\ (down /\ last.op \in Gated \cup {"Open", "Insert", "Read"}) => last.calls = <<>>
    /\ last.op \in {"Stmt.Exec", "Tx.Commit", "Close"}
        => last.calls = <<Call(last.op, last.conn, last.err)>>

C9_Witness ==
    /\ down /\ last.op = "Stmt.Exec" /\ lived[last.conn] = 1
    /\ last.calls = <<Call("Stmt.Exec", last.conn, "nil")>>
    /\ last.row \in rows[conns[last.conn].dsn]

\* C10: BeginTx returns ErrDown when the flag is set, with or without ConnBeginTx;
\* else ErrContext when the native connection lacks ConnBeginTx; else it makes the one
\* native BeginTx call and returns its result.  Neither error case makes a native call.
C10_BeginTxOrder ==
    last.op = "BeginTx"
        => IF down THEN last.err = ErrDown /\ last.calls = <<>>
           ELSE IF ~conns[last.conn].b THEN last.err = ErrContext /\ last.calls = <<>>
           ELSE /\ last.calls = <<Call("BeginTx", last.conn, last.err)>>
                /\ last.err \in NativeResults

C10_Witness ==
    /\ last.op = "BeginTx" /\ down /\ ~conns[last.conn].b
    /\ last.err = ErrDown
\* C11 as claimed: BeginTx on a Conn whose native connection lacks ConnBeginTx returns
\* ErrContext whenever it is called, whatever the flag is.
C11_AlwaysUnsupported ==
    (last.op = "BeginTx" /\ ~conns[last.conn].b) => last.err = ErrContext

\* C11, amended: BeginTx on a Conn whose native connection lacks ConnBeginTx makes no
\* native call and returns ErrContext when Disable(false) is the latest Disable call
\* (or there was none), whatever toggles came before; after a Disable(true) it
\* returns ErrDown.
C11_UnsupportedWhenEnabled ==
    (last.op = "BeginTx" /\ ~conns[last.conn].b)
        => /\ last.err = (IF lastSet THEN ErrDown ELSE ErrContext)
           /\ last.calls = <<>>

C11_Witness ==
    /\ last.op = "BeginTx" /\ ~conns[last.conn].b /\ ~lastSet
    /\ lived[last.conn] = 2 /\ last.err = ErrContext

\* C13: when sql.Open fails in an Open of an uncached name, Open returns that error,
\* makes no other native call, adds no Conn and no handle, and the name stays
\* uncached; and an Open of an uncached name with the flag clear always calls sql.Open
\* first, so the failure is not remembered.
C13_Step ==
    /\ (last'.op = "Open" /\ ~down /\ dbs[last'.name] = NoDB)
        => (Len(last'.calls) >= 1 /\ last'.calls[1].fn = "sql.Open")
    /\ (last'.op = "Open" /\ Len(last'.calls) >= 1 /\ last'.calls[1].fn = "sql.Open"
            /\ last'.calls[1].res # "nil")
        => /\ last'.err = last'.calls[1].res /\ Len(last'.calls) = 1
           /\ last'.conn = 0 /\ conns' = conns /\ handles' = handles
           /\ dbs' = dbs /\ dbs'[last'.name] = NoDB

\* C13: a failed sql.Open is returned unchanged and is not cached.
C13_FailedOpenNotCached == [][C13_Step]_vars

C13_Witness ==
    /\ last.op = "Open" /\ last.err \in NativeErrs
    /\ last.calls = <<Call("sql.Open", 0, last.err)>>
    /\ dbs[last.name] = NoDB /\ \E n \in Names : dbs[n] # NoDB

\* C14: with the flag clear, Prepare, Begin, and BeginTx on a connection that has
\* ConnBeginTx, make exactly one call of the same native operation on their Conn's
\* native connection and return that call's result: a native error is returned as it
\* is, never as ErrDown or ErrContext, and the call is not repeated.
C14_EnabledDelegatesOnce ==
    (last.op \in Gated /\ ~down /\ (last.op = "BeginTx" => conns[last.conn].b))
        => /\ Len(last.calls) = 1
           /\ last.calls[1] = Call(last.op, last.conn, last.err)
           /\ last.err \in NativeResults

C14_Witness ==
    /\ last.op = "Prepare" /\ ~down /\ last.conn \in Live
    /\ last.err \in NativeErrs /\ Len(last.calls) = 1

\* C16: a name that is cached stays cached with the same handle, whatever the step:
\* Disable, Close, an Open of this or another name, a failed Open, a refused Open.
C16_Step == \A n \in Names : dbs[n] # NoDB => dbs'[n] = dbs[n]

\* C16: the dbs cache only grows.
C16_CacheOnlyGrows == [][C16_Step]_vars

C16_Witness ==
    /\ last.op = "Close" /\ conns[last.conn].closed
    /\ dbs[conns[last.conn].dsn] = conns[last.conn].db
    /\ \A c \in ConnIds : conns[c].closed

\* C17: the flag changes only by Disable, which stores its argument whatever the flag
\* was; Open, Prepare, Begin, BeginTx and Close leave it as it is, whether they fail or
\* not; and Disable leaves the cache, the handles and the Conns as they are.
C17_Step ==
    /\ last'.op = "Disable"
        => (down' = last'.flag /\ dbs' = dbs /\ handles' = handles /\ conns' = conns)
    /\ last'.op # "Disable" => down' = down

\* C17: only Disable writes the flag, and the flag is all it writes.
C17_OnlyDisableWritesFlag == [][C17_Step]_vars

C17_Witness ==
    /\ last.op = "Disable" /\ ~last.flag /\ ~down
    /\ \E c \in ConnIds : lived[c] = 2
    /\ \E n \in Names : dbs[n] # NoDB

\* C18: when the driver's Open fails in an Open, after the handle was taken from the
\* cache or created, Open returns that error and adds no Conn, and the handle is
\* cached under the name; an Open of a cached name calls no sql.Open.
C18_Step ==
    LET k == Len(last'.calls)
    IN  /\ (last'.op = "Open" /\ k >= 1 /\ last'.calls[k].fn = "Driver.Open"
                /\ last'.calls[k].res # "nil")
            => /\ last'.err = last'.calls[k].res /\ last'.conn = 0 /\ conns' = conns
               /\ dbs'[last'.name] # NoDB /\ dbs'[last'.name] = last'.calls[k].on
        /\ (last'.op = "Open" /\ dbs[last'.name] # NoDB /\ ~down)
            => (k = 1 /\ last'.calls[1].fn = "Driver.Open"
                /\ last'.calls[1].on = dbs[last'.name])

\* C18: a failed native connection leaves the pool handle cached for the next Open.
C18_HandleKeptOnConnFailure == [][C18_Step]_vars

C18_Witness ==
    /\ last.op = "Open" /\ last.err \in NativeErrs
    /\ last.calls = <<Call("sql.Open", 0, "nil"), Call("Driver.Open", dbs[last.name], last.err)>>
    /\ conns = <<>>
\* C15 as claimed: the check of the flag and the native call that follows it are one
\* step, so a native call is made only while the flag is clear.
C15_NativeOnlyWhileEnabled ==
    (last.op = "Prepare" /\ last.calls # <<>>) => ~down

\* A goroutine leaves the check towards the native call only when the check read the
\* flag as clear, makes the native call only after such a check, and returns from a
\* check that read the flag as set without a native call.
C15_Step ==
    \A g \in Procs :
        /\ (pc[g] = "pnative" /\ pc'[g] = "idle")
            => (~loc[g].saw /\ last'.calls = <<Call("Prepare", loc[g].conn, last'.err)>>)
        /\ (pc[g] = "pgate" /\ pc'[g] # "pgate" /\ lastRead'.val)
            => (pc'[g] = "idle" /\ last'.err = ErrDown /\ last'.calls = <<>>
                /\ stmts' = stmts)
        /\ (pc[g] = "pgate" /\ pc'[g] # "pgate" /\ ~lastRead'.val) => pc'[g] = "pnative"

\* C15, amended: a native call is made by a call only after that call's own check read
\* the flag as clear, and a call whose check read it as set makes none; the check and
\* the native call are two steps, so the native call may be made after a Disable(true)
\* that completed between them.
C15_NativeOnlyAfterClearCheck == [][C15_Step]_vars

C15_Witness ==
    /\ last.op = "Prepare" /\ last.calls # <<>> /\ down /\ lastSet
    /\ lastRead.cur = FALSE /\ lastRead.val = FALSE
\* C12: a NewDriver call for a registered name fails with AlreadyRegistered, returns no
\* Breaker and leaves the registry as it was; for a new name it registers a new Breaker
\* that is enabled and has an empty cache.  No step removes or replaces a registration.
C12_Step ==
    /\ drivers \subseteq drivers'
    /\ rlast'.op = "NewDriver" =>
        IF \E d \in drivers : d.name = rlast'.name
        THEN /\ rlast'.err = AlreadyRegistered
             /\ rlast'.gate = NoGate
             /\ drivers' = drivers
             /\ breakers' = breakers
        ELSE /\ rlast'.err = "nil"
             /\ rlast'.gate = Len(breakers) + 1
             /\ breakers' = Append(breakers, [native |-> breakers'[rlast'.gate].native,
                                              down |-> FALSE,
                                              dbs |-> [n \in Names |-> NoDB]])
             /\ drivers' = drivers \cup {[name |-> rlast'.name, gate |-> rlast'.gate]}

\* C12: every name is registered at most once, and every Breaker under one name.
C12_OneBinding ==
    /\ \A d, f \in drivers : d.name = f.name => d = f
    /\ \A w \in GateIds : Cardinality({d \in drivers : d.gate = w}) = 1

C12_CreateRegistersOnce == []C12_OneBinding /\ [][C12_Step]_vars

C12_Witness ==
    /\ rlast.op = "NewDriver" /\ rlast.err = AlreadyRegistered
    /\ Len(breakers) = MaxGates
    /\ \E d \in drivers : d.name = rlast.name /\ d.gate # NoGate

\* C19: a step on one Breaker leaves every other Breaker (flag and cache) as it was.
C19_Step ==
    \A v \in GateIds : v # rlast'.gate => breakers'[v] = breakers[v]

\* C19: Open, Prepare and Begin on a Breaker are refused exactly when that Breaker's
\* own flag is set, and every cached pool handle was created by the Breaker that
\* caches it, for the name it is cached under.
C19_OwnFlagOwnCache ==
    /\ rlast.op \in {"Open", "Prepare", "Begin"}
        => (rlast.err = ErrDown <=> breakers[rlast.gate].down)
    /\ \A w \in GateIds, n \in Names :
        breakers[w].dbs[n] # NoDB
            => pools[breakers[w].dbs[n]] = [gate |-> w, name |-> n]

C19_GatesIndependent == []C19_OwnFlagOwnCache /\ [][C19_Step]_vars

C19_Witness ==
    /\ rlast.op \in {"Prepare", "Begin"} /\ rlast.err = "nil"
    /\ \E v \in GateIds, n \in Names :
        /\ v # rlast.gate
        /\ breakers[v].down
        /\ breakers[v].dbs[n] # NoDB
        /\ breakers[rlast.gate].dbs[n] # NoDB
        /\ breakers[v].dbs[n] # breakers[rlast.gate].dbs[n]
====
